---- MODULE Spec2Model ----
(***************************************************************************)
(* A model of crime-abm: the CrimeABM engine (src/model/model.py), its     *)
(* PersonAgent (src/model/agents.py) and the network generator             *)
(* (src/model/network.py).                                                 *)
(*                                                                         *)
(* Numbers.  Probabilities, shares, stigma and criminal capital are kept   *)
(* in hundredths (0.35 is 35, 1.0 is 100).  The day-valued configuration   *)
(* fields detention_days_mean, prison_sentence_days_mean and               *)
(* evidence_window_days are GIVEN in tenths of a day (1.5 days is 15) and  *)
(* STORED in whole days, as int() leaves them.                             *)
(*                                                                         *)
(* Randomness.  random.Random(seed) and numpy's process-wide generator are *)
(* deterministic functions of their seed: each is a stream state advanced  *)
(* by a congruential step, random() reading its top digit.  The CrimeABM   *)
(* object owns `random`; numpy's generator is the one variable np_random   *)
(* shared by every simulation of the process.                              *)
(***************************************************************************)
EXTENDS Integers, Sequences, FiniteSets, TLC

VARIABLES sim, np_random, outcome

vars == <<sim, np_random, outcome>>

\* ---------------------------------------------------------------- bounds

\* Days a simulation is stepped (run_baseline's n_days).
MaxDays == 6
\* Seeds tried per configuration: 0..MaxSeed.
MaxSeed == 39
\* Days and seeds of the two-simulation process.
PairDays == 3
PairSeed == 2

\* ---------------------------------------------------------------- numbers

Max(a, b) == IF a >= b THEN a ELSE b
Min(a, b) == IF a <= b THEN a ELSE b

\* Python's int() of the quotient num/den (den > 0): truncation toward zero.
int(num, den) == IF num >= 0 THEN num \div den ELSE -((-num) \div den)

\* floor of num/den (den > 0).
floor(num, den) == num \div den

\* A clamp that has lost its ceiling.
clamp_no_ceiling(x) == Max(0, x)

\* clamp(x, 0.0, 1.0), in hundredths.
clamp(x) == Max(0, Min(100, x))

\* ---------------------------------------------------------------- streams

\* One congruential step of a generator's state.
advance(x) == (333 * x + 571) % 1024

\* random.Random(seed): the state a seed gives.
Random(seed) == (389 * seed + 17) % 1024

\* A constructor that never seeds numpy: the generator stays where it was.
np_random_seed_missing(x, seed) == x

\* np.random.seed(seed): the state of numpy's global generator after the
\* call, whatever its state x before.
np_random_seed(x, seed) == (733 * seed + 91) % 1024

\* random(): a value in [0,1), in hundredths, read off the state.
random_value(x) == ((x * 10) \div 1024) * 10

\* randbelow(k) as choice() and shuffle() use it: an index in 0..k-1.
randbelow(x, k) == (random_value(x) * k) \div 100

\* gauss(0.15, 0.05), in hundredths: the inverse normal c.d.f. at the draw.
gauss(x) ==
  LET z == <<-10, -6, -4, -2, -1, 0, 1, 3, 5, 8>>
  IN  15 + z[(random_value(x) \div 10) + 1]

\* np.random.exponential(scale), truncated by int(): the inverse c.d.f.
\* -ln(1-u) at the draw, in hundredths, times the scale in days.
exponential(scale, x) ==
  LET q == <<0, 10, 22, 35, 51, 69, 91, 120, 160, 230>>
  IN  int(scale * q[(random_value(x) \div 10) + 1], 100)

\* np.random.exponential raises ValueError("scale < 0") for a negative scale.
exponential_raises(scale) == scale < 0

\* ---------------------------------------------------------------- sequences

RECURSIVE SetToSeq(_)
\* The elements of a set of integers in ascending order (dict / list order
\* of agent ids 0..n-1).
SetToSeq(S) ==
  IF S = {} THEN <<>>
  ELSE LET m == CHOOSE x \in S : \A y \in S : x <= y
       IN  <<m>> \o SetToSeq(S \ {m})

Range(s) == {s[k] : k \in 1..Len(s)}

RECURSIVE Sum(_)
Sum(s) == IF s = <<>> THEN 0 ELSE Head(s) + Sum(Tail(s))

RECURSIVE advance_n(_, _)
\* The state after k draws.
advance_n(x, k) == IF k <= 0 THEN x ELSE advance_n(advance(x), k - 1)

\* ---------------------------------------------------------------- statuses

LAWFUL == "LAWFUL"
AT_RISK == "AT_RISK"
CRIMINAL == "CRIMINAL"
DETAINED == "DETAINED"
PRISON == "PRISON"

Status == {LAWFUL, AT_RISK, CRIMINAL, DETAINED, PRISON}

\* ---------------------------------------------------------------- network

Edge(a, b) == {a, b}

has_edge(G, a, b) == Edge(a, b) \in G

\* G.neighbors(a), in ascending id order.
neighbors(G, a) == SetToSeq({b \in UNION G : b # a /\ Edge(a, b) \in G})

RECURSIVE random_subset(_, _, _, _)
\* networkx's _random_subset: draw from seq until m distinct targets are held.
random_subset(seq, m, targets, x) ==
  IF Cardinality(targets) >= m THEN [targets |-> targets, x |-> x]
  ELSE random_subset(seq, m, targets \cup {seq[randbelow(x, Len(seq)) + 1]},
                     advance(x))

RECURSIVE Repeat(_, _)
Repeat(v, k) == IF k <= 0 THEN <<>> ELSE <<v>> \o Repeat(v, k - 1)

RECURSIVE ba_grow(_, _, _, _, _, _)
\* The attachment loop of nx.barabasi_albert_graph: each new node `source`
\* attaches m edges to targets drawn from repeated_nodes.
ba_grow(G, repeated_nodes, source, n, m, x) ==
  IF source >= n THEN G
  ELSE LET t == random_subset(repeated_nodes, m, {}, x)
       IN  ba_grow(G \cup {Edge(source, b) : b \in t.targets},
                   repeated_nodes \o SetToSeq(t.targets) \o Repeat(source, m),
                   source + 1, n, m, t.x)

\* nx.barabasi_albert_graph(n, m, seed): a star on nodes 0..m, then growth
\* driven by its own random.Random(seed).
barabasi_albert_graph(n, m, seed) ==
  LET star == {Edge(0, b) : b \in 1..m}
      rep  == Repeat(0, m) \o [k \in 1..m |-> k]
  IN  [nodes |-> 0..(n - 1),
       edges |-> ba_grow(star, rep, m + 1, n, m, Random(seed))]

\* make_scale_free_network: the range check, then the generator.
make_scale_free_network(n, m, seed) ==
  IF m < 1 \/ m >= n
  THEN [ok |-> FALSE, nodes |-> {}, edges |-> {}]
  ELSE LET g == barabasi_albert_graph(n, m, seed)
       IN  [ok |-> TRUE, nodes |-> g.nodes, edges |-> g.edges]

\* ---------------------------------------------------------------- construction

\* The status drawn for a new agent from u = random().
initial_status(cfg, u) ==
  IF u < cfg.initial_criminal_share THEN CRIMINAL
  ELSE IF u < cfg.initial_criminal_share + cfg.initial_at_risk_share THEN AT_RISK
  ELSE LAWFUL

\* A constructor that keeps the configuration record as it was passed, with
\* nothing converted by int().
stored_params_unconverted(cfg, seed) == cfg @@ [seed |-> seed]

\* The attributes CrimeABM.__init__ stores (lines 69-95).
stored_params(cfg, seed) ==
  [n_agents |-> cfg.n_agents,
   seed |-> seed,
   sf_m |-> cfg.sf_m,
   peer_influence_weight |-> cfg.peer_influence_weight,
   risk_threshold |-> cfg.risk_threshold,
   crime_base_rate |-> cfg.crime_base_rate,
   coercive_capacity |-> cfg.coercive_capacity,
   forensic_capacity |-> cfg.forensic_capacity,
   detention_days_mean |-> int(cfg.detention_days_mean, 10),
   conviction_base_prob |-> cfg.conviction_base_prob,
   prison_sentence_days_mean |-> int(cfg.prison_sentence_days_mean, 10),
   detention_stigma_increment |-> cfg.detention_stigma_increment,
   detention_criminal_capital_increment |-> cfg.detention_criminal_capital_increment,
   prison_criminal_capital_increment |-> cfg.prison_criminal_capital_increment,
   congestion_strength |-> cfg.congestion_strength,
   evidence_window_days |-> int(cfg.evidence_window_days, 10),
   rewiring_enabled |-> cfg.rewiring_enabled,
   drop_lawful_edge_prob |-> cfg.drop_lawful_edge_prob,
   add_criminal_edge_prob |-> cfg.add_criminal_edge_prob,
   max_new_edges_per_event |-> cfg.max_new_edges_per_event]

\* PersonAgent.__init__: the rolling window, max(1, int(window)) zeros.
new_crime_history(window) == Repeat(0, Max(1, window))

\* What an observer notes of the latest policing attempt and rewiring event.
NoAttempt == [kind |-> "none", target |-> -1, status_at_draw |-> LAWFUL,
              pool_at_draw |-> {}, detained |-> FALSE]

\* What an observer notes when an agent enters a hold: the day (counted
\* from 1) and the timer it entered with.
NoHold == [entered |-> 0, length |-> 0]

NoRewire == [agent |-> -1, nodes_before |-> {}, nodes_after |-> {},
             G_before |-> {}, G_after |-> {}, lawful |-> {}, criminal |-> {}]

\* A simulation that was never constructed.
NoSim == [pc |-> "none"]

\* CrimeABM.__init__ once the network is built: agent i takes two draws of
\* self.random, one for its status and one for its base propensity.
new_model(cfg, seed, net) ==
  LET p  == stored_params(cfg, seed)
      A  == 0..(p.n_agents - 1)
      r0 == Random(seed)
  IN  [pc |-> "idle",
       p |-> p,
       random |-> advance_n(r0, 2 * p.n_agents),
       nodes |-> net.nodes,
       G |-> net.edges,
       status |-> [a \in A |-> initial_status(cfg, random_value(advance_n(r0, 2 * a)))],
       base_propensity |-> [a \in A |-> clamp(gauss(advance_n(r0, 2 * a + 1)))],
       criminal_capital |-> [a \in A |-> 0],
       stigma |-> [a \in A |-> 0],
       detained_days_left |-> [a \in A |-> 0],
       prison_days_left |-> [a \in A |-> 0],
       crime_history |-> [a \in A |-> new_crime_history(p.evidence_window_days)],
       crime_today |-> [a \in A |-> 0],
       crime_events_today |-> 0,
       wrongful_detentions_today |-> 0,
       detentions_today |-> 0,
       convictions_today |-> 0,
       \* the scheduler's position inside step()
       order |-> <<>>, idx |-> 0,
       \* police_step's locals
       n_attempts |-> 0, attempt |-> 0, criminals |-> <<>>, non_criminals |-> <<>>,
       \* DataCollector rows, one per day
       day |-> 0, model_vars |-> <<>>,
       \* what an observer of the run has seen (no code reads these)
       seen |-> <<>>,
       day_start |-> [status |-> [a \in A |-> LAWFUL], detained_days_left |-> [a \in A |-> 0]],
       agent_steps |-> [a \in A |-> 0],
       resolved |-> [a \in A |-> 0],
       entered |-> [a \in A |-> 0],
       det_hold |-> [a \in A |-> NoHold],
       pri_hold |-> [a \in A |-> NoHold],
       flags |-> [a \in A |-> <<>>],
       police_runs |-> 0,
       police_start |-> [a \in A |-> LAWFUL],
       last_attempt |-> NoAttempt,
       rewires |-> 0,
       last_rewire |-> NoRewire]

\* ---------------------------------------------------------------- agents

Agents(s) == 0..(s.p.n_agents - 1)

\* One self.random.random() call: the value, and the model after the draw.
random_random(s) == [u |-> random_value(s.random),
                     s |-> [s EXCEPT !.random = advance(s.random)]]

\* PersonAgent.share_criminal_neighbors, in hundredths.
share_criminal_neighbors(s, a) ==
  LET nbrs == neighbors(s.G, a)
      criminal == Cardinality({b \in Range(nbrs) : s.status[b] = CRIMINAL})
  IN  IF nbrs = <<>> THEN 0 ELSE (criminal * 100) \div Len(nbrs)

\* PersonAgent.crimes_last_window
crimes_last_window(s, a) == Sum(s.crime_history[a])

\* deque.appendleft: the new entry enters at the old end of a full window
\* and the newest one is evicted.
deque_append_left(h, v, maxlen) ==
  IF Len(h) >= maxlen THEN <<v>> \o SubSeq(h, 1, maxlen - 1) ELSE <<v>> \o h

\* An append to a deque created without maxlen: nothing is evicted.
deque_append_unbounded(h, v, maxlen) == h \o <<v>>

\* deque.append on a deque with maxlen
deque_append(h, v, maxlen) ==
  IF Len(h) >= maxlen THEN Tail(h) \o <<v>> ELSE h \o <<v>>

\* CrimeABM.register_daily_crime
register_daily_crime(s, a) ==
  [s EXCEPT !.crime_history[a] =
     deque_append(@, IF s.crime_today[a] > 0 THEN 1 ELSE 0,
                  Max(1, s.p.evidence_window_days))]

\* The propensity score of update_risk_state, clamped, in hundredths.
propensity_of(s, a) ==
  clamp(s.base_propensity[a]
        + (s.p.peer_influence_weight * share_criminal_neighbors(s, a)
           + 25 * s.stigma[a] + 35 * s.criminal_capital[a]) \div 100)

\* CrimeABM.update_risk_state
update_risk_state(s, a) ==
  IF s.status[a] \notin {LAWFUL, AT_RISK, CRIMINAL} THEN s
  ELSE LET propensity == propensity_of(s, a)
           s1 == IF s.status[a] = LAWFUL /\ propensity >= s.p.risk_threshold
                 THEN [s EXCEPT !.status[a] = AT_RISK] ELSE s
       IN  IF s1.status[a] = AT_RISK
           THEN LET d == random_random(s1)
                IN  IF d.u < propensity
                    THEN [d.s EXCEPT !.status[a] = CRIMINAL] ELSE d.s
           ELSE s1

\* CrimeABM.attempt_crime
attempt_crime(s, a) ==
  LET peer == share_criminal_neighbors(s, a)
      p == clamp(s.p.crime_base_rate
                 + (25 * s.criminal_capital[a] + 10 * peer) \div 100)
      d == random_random(s)
  IN  IF d.u < p
      THEN [d.s EXCEPT !.crime_events_today = @ + 1, !.crime_today[a] = @ + 1]
      ELSE d.s

\* PersonAgent.detain
detain(s, a, days) ==
  [s EXCEPT !.status[a] = DETAINED, !.detained_days_left[a] = Max(1, days)]

\* An imprison that sets the timer and forgets the status.
imprison_keeps_status(s, a, days) ==
  [s EXCEPT !.prison_days_left[a] = Max(1, days)]

\* PersonAgent.imprison
imprison(s, a, days) ==
  [s EXCEPT !.status[a] = PRISON, !.prison_days_left[a] = Max(1, days)]

\* CrimeABM.share_in_state, as the number of agents in the state.
count_in_state(s, st) == Cardinality({a \in Agents(s) : s.status[a] = st})

\* ---------------------------------------------------------------- rewiring

\* nx.Graph.add_edge: the edge, and its endpoints as nodes.
add_edge(s, a, b) ==
  [s EXCEPT !.G = @ \cup {Edge(a, b)}, !.nodes = @ \cup {a, b}]

\* nx.Graph.remove_edge
remove_edge(s, a, b) == [s EXCEPT !.G = @ \ {Edge(a, b)}]

RECURSIVE drop_lawful_ties(_, _, _)
\* The first loop of rewire_on_incarceration_event, over the neighbour list
\* taken before it.  random() is drawn only for a LAWFUL neighbour.
drop_lawful_ties(s, a, nbrs) ==
  IF nbrs = <<>> THEN s
  ELSE LET nbr == Head(nbrs)
       IN  IF s.status[nbr] = LAWFUL
           THEN LET d == random_random(s)
                IN  IF d.u < s.p.drop_lawful_edge_prob /\ has_edge(d.s.G, a, nbr)
                    THEN drop_lawful_ties(remove_edge(d.s, a, nbr), a, Tail(nbrs))
                    ELSE drop_lawful_ties(d.s, a, Tail(nbrs))
           ELSE drop_lawful_ties(s, a, Tail(nbrs))

\* The bound checked with `<=`: one edge too many.
may_add_one_more(s, added) == added <= s.p.max_new_edges_per_event

\* The bound on new edges of one event.
may_add(s, added) == added < s.p.max_new_edges_per_event

RECURSIVE add_criminal_ties(_, _, _, _, _)
\* The while loop of rewire_on_incarceration_event: rejection sampling of
\* candidates, at most 5 attempts per wanted edge.
add_criminal_ties(s, a, criminals, added, attempts) ==
  IF ~(may_add(s, added) /\ attempts < s.p.max_new_edges_per_event * 5) THEN s
  ELSE LET cand == criminals[randbelow(s.random, Len(criminals)) + 1]
           s1 == [s EXCEPT !.random = advance(s.random)]
       IN  IF cand = a THEN add_criminal_ties(s1, a, criminals, added, attempts + 1)
           ELSE IF ~has_edge(s1.G, a, cand)
           THEN add_criminal_ties(add_edge(s1, a, cand), a, criminals,
                                  added + 1, attempts + 1)
           ELSE add_criminal_ties(s1, a, criminals, added, attempts + 1)

\* The candidate pool of rewire_on_incarceration_event.
rewire_candidates(s, a) ==
  SetToSeq({b \in Agents(s) : s.status[b] = CRIMINAL /\ b # a})

\* CrimeABM.rewire_on_incarceration_event
rewire_on_incarceration_event(s, a) ==
  LET s1 == drop_lawful_ties(s, a, neighbors(s.G, a))
      criminals == rewire_candidates(s1, a)
      s2 == IF criminals = <<>> THEN s1
            ELSE add_criminal_ties(s1, a, criminals, 0, 0)
  IN  [s2 EXCEPT !.rewires = @ + 1,
                 !.last_rewire =
                    [agent |-> a, nodes_before |-> s.nodes, nodes_after |-> s2.nodes,
                     G_before |-> s.G, G_after |-> s2.G,
                     lawful |-> {b \in Agents(s) : s.status[b] = LAWFUL},
                     criminal |-> {b \in Agents(s) : s.status[b] = CRIMINAL}]]

\* ---------------------------------------------------------------- institution

\* The evidence strength of resolve_judicial_outcome, in hundredths:
\* 0.35 + 0.65 * clamp(crimes_recent / max(1, evidence_window_days * 0.15)).
evidence_of(s, a) ==
  35 + (65 * clamp((crimes_last_window(s, a) * 10000)
                   \div Max(100, s.p.evidence_window_days * 15))) \div 100

\* p_convict of resolve_judicial_outcome, in hundredths.
p_convict_of(s, a) ==
  clamp((s.p.conviction_base_prob * s.p.forensic_capacity * evidence_of(s, a))
        \div 10000)

\* The sentence of resolve_judicial_outcome: the exponential draw, at least
\* one day, shortened under congestion.
sentence_of(s, x) ==
  LET base == Max(1, exponential(s.p.prison_sentence_days_mean, x))
      n == s.p.n_agents
  IN  IF s.p.congestion_strength > 0
      THEN Max(1, int(base * (100 * n - s.p.congestion_strength * count_in_state(s, PRISON)),
                      100 * n))
      ELSE base

\* CrimeABM.resolve_judicial_outcome.  The sentence is drawn from numpy's
\* global generator x, everything else from self.random.  When the draw
\* raises, the exception leaves step() with the conviction already counted.
resolve_judicial_outcome(s, x, a) ==
  LET d == random_random(s)
      s0 == [d.s EXCEPT !.resolved[a] = @ + 1]
  IN  IF d.u < p_convict_of(s, a)
      THEN LET s1 == [s0 EXCEPT !.convictions_today = @ + 1]
               s2 == imprison(s1, a, sentence_of(s1, x))
               s3 == [s2 EXCEPT !.criminal_capital[a] =
                        clamp(@ + s.p.prison_criminal_capital_increment),
                                !.pri_hold[a] =
                                   [entered |-> s.day + 1,
                                    length |-> s2.prison_days_left[a]]]
           IN  IF exponential_raises(s.p.prison_sentence_days_mean)
               THEN [s |-> [s1 EXCEPT !.pc = "raised"], x |-> x]
               ELSE [s |-> IF s.p.rewiring_enabled
                           THEN rewire_on_incarceration_event(s3, a) ELSE s3,
                     x |-> advance(x)]
      ELSE [s |-> [s0 EXCEPT !.status[a] = AT_RISK,
                             !.criminal_capital[a] =
                                clamp(@ + s.p.detention_criminal_capital_increment)],
            x |-> x]

\* A release that returns the agent to LAWFUL.
release_from_prison_to_lawful(s, a) ==
  [s EXCEPT !.status[a] = LAWFUL, !.criminal_capital[a] = clamp(@ + 5)]

\* A release that is followed by a rewiring event, as an entry is.
release_from_prison_rewires(s, a) ==
  rewire_on_incarceration_event(
    [s EXCEPT !.status[a] = AT_RISK, !.criminal_capital[a] = clamp(@ + 5)], a)

\* CrimeABM.release_from_prison
release_from_prison(s, a) ==
  [s EXCEPT !.status[a] = AT_RISK, !.criminal_capital[a] = clamp(@ + 5)]

\* A hold that ends one day late: `<` written for `<=`.
hold_over_late(days_left) == days_left < 0

\* A hold that ends one day early: `<= 1` written for `<= 0`.
hold_over_early(days_left) == days_left <= 1

\* The test `timer <= 0` that ends a hold in PersonAgent.step.
hold_over(days_left) == days_left <= 0

\* A day-step without the two `return`s: an agent whose hold ends goes on
\* to the risk update and the offense attempt of the same day.
PersonAgent_step_falls_through(s, x, a) ==
  LET s0 == [s EXCEPT !.crime_today[a] = 0]
      r == IF s0.status[a] = DETAINED
           THEN LET s1 == [s0 EXCEPT !.detained_days_left[a] = @ - 1]
                IN  IF hold_over(s1.detained_days_left[a])
                    THEN resolve_judicial_outcome(s1, x, a)
                    ELSE [s |-> s1, x |-> x]
           ELSE IF s0.status[a] = PRISON
           THEN LET s1 == [s0 EXCEPT !.prison_days_left[a] = @ - 1]
                IN  [s |-> IF hold_over(s1.prison_days_left[a])
                           THEN release_from_prison(s1, a) ELSE s1,
                     x |-> x]
           ELSE [s |-> s0, x |-> x]
      s2 == IF r.s.status[a] \in {DETAINED, PRISON} THEN r.s
            ELSE update_risk_state(r.s, a)
      s3 == IF s2.status[a] = CRIMINAL THEN attempt_crime(s2, a) ELSE s2
  IN  IF r.s.pc = "raised" THEN r
      ELSE [s |-> register_daily_crime(s3, a), x |-> r.x]

\* PersonAgent.step
PersonAgent_step(s, x, a) ==
  LET s0 == [s EXCEPT !.crime_today[a] = 0]
  IN  IF s0.status[a] = DETAINED
      THEN LET s1 == [s0 EXCEPT !.detained_days_left[a] = @ - 1]
               r == IF hold_over(s1.detained_days_left[a])
                    THEN resolve_judicial_outcome(s1, x, a)
                    ELSE [s |-> s1, x |-> x]
           IN  IF r.s.pc = "raised" THEN r
               ELSE [s |-> register_daily_crime(r.s, a), x |-> r.x]
      ELSE IF s0.status[a] = PRISON
      THEN LET s1 == [s0 EXCEPT !.prison_days_left[a] = @ - 1]
               s2 == IF hold_over(s1.prison_days_left[a])
                     THEN release_from_prison(s1, a) ELSE s1
           IN  [s |-> register_daily_crime(s2, a), x |-> x]
      ELSE LET s1 == update_risk_state(s0, a)
               s2 == IF s1.status[a] = CRIMINAL THEN attempt_crime(s1, a) ELSE s1
           IN  [s |-> register_daily_crime(s2, a), x |-> x]

\* A pass that always makes at least one attempt: max(1, ...) for max(0, ...).
n_attempts_at_least_one(s) == Max(1, int(s.p.coercive_capacity * s.p.n_agents, 100))

\* n_attempts of police_step
n_attempts_of(s) == Max(0, int(s.p.coercive_capacity * s.p.n_agents, 100))

\* The two pools with their filters exchanged.
police_pools_swapped(s) ==
  [criminals |-> SetToSeq({a \in Agents(s) : s.status[a] \in {LAWFUL, AT_RISK}}),
   non_criminals |-> SetToSeq({a \in Agents(s) : s.status[a] = CRIMINAL})]

\* The two pools police_step builds before its loop.
police_pools(s) ==
  [criminals |-> SetToSeq({a \in Agents(s) : s.status[a] = CRIMINAL}),
   non_criminals |-> SetToSeq({a \in Agents(s) : s.status[a] \in {LAWFUL, AT_RISK}})]

\* Lines 218-230 of police_step: the detention of a drawn target.  When the
\* draw of the detention length raises, the counters of lines 218-220 have
\* been incremented and nobody has been detained.
police_detain(s, x, target, wrongful) ==
  LET s1 == [s EXCEPT !.detentions_today = @ + 1,
                      !.wrongful_detentions_today = IF wrongful THEN @ + 1 ELSE @,
                      !.entered[target] = @ + 1]
      det_days == Max(1, exponential(s.p.detention_days_mean, x))
      s2 == detain(s1, target, det_days)
      s3 == [s2 EXCEPT !.stigma[target] = clamp(@ + s.p.detention_stigma_increment),
                       !.det_hold[target] =
                          [entered |-> s.day + 1,
                           length |-> s2.detained_days_left[target]]]
  IN  IF exponential_raises(s.p.detention_days_mean)
      THEN [s |-> [s EXCEPT !.detentions_today = @ + 1,
                            !.wrongful_detentions_today =
                               IF wrongful THEN @ + 1 ELSE @,
                            !.pc = "raised"],
            x |-> x]
      ELSE [s |-> IF s.p.rewiring_enabled
                  THEN rewire_on_incarceration_event(s3, target) ELSE s3,
            x |-> advance(x)]

\* A test that lets a DETAINED target through.
already_held_prison_only(s, target) == s.status[target] = PRISON

\* Line 215 of police_step: the drawn target is already held.
already_held(s, target) == s.status[target] \in {DETAINED, PRISON}

\* One iteration of the loop of police_step.
police_attempt(s, x) ==
  LET d == random_random(s)
      pool == {a \in Agents(s) : s.status[a] = CRIMINAL}
      correct == d.u < s.p.forensic_capacity /\ s.criminals # <<>>
      list == IF correct THEN s.criminals ELSE s.non_criminals
  IN  IF list = <<>>
      THEN [s |-> [d.s EXCEPT !.last_attempt =
                     [kind |-> "skipped", target |-> -1, status_at_draw |-> LAWFUL,
                      pool_at_draw |-> pool, detained |-> FALSE]],
            x |-> x]
      ELSE LET target == list[randbelow(d.s.random, Len(list)) + 1]
               s1 == [d.s EXCEPT !.random = advance(@)]
               free == ~already_held(s1, target)
               r == IF free THEN police_detain(s1, x, target, ~correct)
                    ELSE [s |-> s1, x |-> x]
               note == [kind |-> IF correct THEN "correct" ELSE "wrongful",
                        target |-> target, status_at_draw |-> s.status[target],
                        pool_at_draw |-> pool,
                        detained |-> free /\ r.s.pc # "raised"]
           IN  [s |-> [r.s EXCEPT !.last_attempt = note], x |-> r.x]

\* ---------------------------------------------------------------- the day

RECURSIVE shuffle_from(_, _, _)
\* random.shuffle: for i from len-1 down to 1, swap x[i] with x[randbelow(i+1)]
\* (positions counted from 0).
shuffle_from(seq, i, x) ==
  IF i < 1 THEN [seq |-> seq, x |-> x]
  ELSE LET j == randbelow(x, i + 1)
           swapped == [seq EXCEPT ![i + 1] = seq[j + 1], ![j + 1] = seq[i + 1]]
       IN  shuffle_from(swapped, i - 1, advance(x))

RECURSIVE shuffle_one_way_from(_, _, _)
\* A shuffle whose swap copies x[j] to x[i] and loses x[i].
shuffle_one_way_from(seq, i, x) ==
  IF i < 1 THEN [seq |-> seq, x |-> x]
  ELSE shuffle_one_way_from([seq EXCEPT ![i + 1] = seq[randbelow(x, i + 1) + 1]],
                            i - 1, advance(x))

shuffle_one_way(seq, x) == shuffle_one_way_from(seq, Len(seq) - 1, x)

\* RandomActivation's order for the day: the agent keys, shuffled by the
\* model's own generator.
shuffle(seq, x) == shuffle_from(seq, Len(seq) - 1, x)

\* step(), lines 150-156: the counters are reset and the scheduler draws the
\* day's activation order.
step_begin(s) ==
  LET sh == shuffle(SetToSeq(Agents(s)), s.random)
  IN  [s EXCEPT !.pc = "agents",
                !.crime_events_today = 0,
                !.wrongful_detentions_today = 0,
                !.detentions_today = 0,
                !.convictions_today = 0,
                !.random = sh.x,
                !.order = sh.seq, !.idx = 1,
                !.day_start = [status |-> s.status,
                               detained_days_left |-> s.detained_days_left],
                !.agent_steps = [a \in Agents(s) |-> 0],
                !.resolved = [a \in Agents(s) |-> 0],
                !.entered = [a \in Agents(s) |-> 0],
                !.police_runs = 0,
                !.last_attempt = NoAttempt]

\* schedule.step(): the next agent of the day's order takes its step.
schedule_next(s, x) ==
  LET a == s.order[s.idx]
      r == PersonAgent_step(s, x, a)
  IN  IF r.s.pc = "raised" THEN r
      ELSE [s |-> [r.s EXCEPT !.idx = @ + 1, !.agent_steps[a] = @ + 1,
                              !.flags[a] = Append(@,
                                 IF r.s.crime_events_today > s.crime_events_today
                                 THEN 1 ELSE 0)],
            x |-> r.x]

\* police_step up to its loop.
police_begin(s) ==
  LET n == n_attempts_of(s)
      pools == police_pools(s)
  IN  IF n = 0
      THEN [s EXCEPT !.pc = "collect", !.police_runs = @ + 1, !.n_attempts = 0,
                     !.attempt = 0, !.criminals = <<>>, !.non_criminals = <<>>,
                     !.police_start = s.status]
      ELSE [s EXCEPT !.pc = "police", !.police_runs = @ + 1, !.n_attempts = n,
                     !.attempt = 0, !.criminals = pools.criminals,
                     !.non_criminals = pools.non_criminals,
                     !.police_start = s.status]

\* The next iteration of police_step's loop; the pass ends with the last one.
police_next(s, x) ==
  LET r == police_attempt(s, x)
  IN  IF r.s.pc = "raised" THEN r
      ELSE [s |-> [r.s EXCEPT !.attempt = @ + 1,
                              !.pc = IF s.attempt + 1 >= s.n_attempts
                                     THEN "collect" ELSE "police"],
            x |-> r.x]

\* datacollector.collect: the day's row of model reporters.
collect(s) ==
  [s EXCEPT !.pc = "idle",
            !.day = @ + 1,
            !.model_vars = Append(@,
               [crime_events |-> s.crime_events_today,
                detentions |-> s.detentions_today,
                wrongful_detentions |-> s.wrongful_detentions_today,
                convictions |-> s.convictions_today,
                n_criminal |-> count_in_state(s, CRIMINAL),
                n_detained |-> count_in_state(s, DETAINED),
                n_prison |-> count_in_state(s, PRISON)]),
            !.seen = Append(@,
               [status |-> s.status,
                detained_days_left |-> s.detained_days_left,
                prison_days_left |-> s.prison_days_left])]

RECURSIVE schedule_step(_, _)
\* schedule.step(): every agent of the day's order, one after the other.
schedule_step(s, x) ==
  IF s.idx > Len(s.order) \/ s.pc = "raised" THEN [s |-> s, x |-> x]
  ELSE LET r == schedule_next(s, x) IN schedule_step(r.s, r.x)

RECURSIVE police_loop(_, _)
\* The loop of police_step.
police_loop(s, x) ==
  IF s.pc # "police" THEN [s |-> s, x |-> x]
  ELSE LET r == police_next(s, x) IN police_loop(r.s, r.x)

\* CrimeABM.step, start to end, in a process where nothing else runs; an
\* exception ends it where it is raised.
step(s, x) ==
  LET a == schedule_step(step_begin(s), x)
      b == police_loop(police_begin(a.s), a.x)
  IN  IF a.s.pc = "raised" THEN a
      ELSE IF b.s.pc = "raised" THEN b
      ELSE [s |-> collect(b.s), x |-> b.x]

RECURSIVE run_days(_, _, _)
\* run_baseline's loop: days calls of step().
run_days(s, x, days) ==
  IF days <= 0 \/ s.pc = "raised" THEN s
  ELSE LET r == step(s, x) IN run_days(r.s, r.x, days - 1)

\* The simulation run_baseline gets when it is the only one of its process:
\* constructed from (cfg, seed) and stepped `days` times.
run_alone(cfg, seed, days) ==
  run_days(new_model(cfg, seed,
                     make_scale_free_network(cfg.n_agents, cfg.sf_m, seed)),
           np_random_seed(0, seed), days)

\* ---------------------------------------------------------------- inputs

\* config.yml's model section, scaled to a population TLC can enumerate.
Base ==
  [n_agents |-> 3, sf_m |-> 1,
   initial_criminal_share |-> 30, initial_at_risk_share |-> 30,
   peer_influence_weight |-> 35, risk_threshold |-> 30, crime_base_rate |-> 50,
   coercive_capacity |-> 67, forensic_capacity |-> 70,
   detention_days_mean |-> 10, conviction_base_prob |-> 60,
   prison_sentence_days_mean |-> 20,
   detention_stigma_increment |-> 10,
   detention_criminal_capital_increment |-> 15,
   prison_criminal_capital_increment |-> 20,
   congestion_strength |-> 0,
   evidence_window_days |-> 20,
   rewiring_enabled |-> TRUE,
   drop_lawful_edge_prob |-> 50, add_criminal_edge_prob |-> 25,
   max_new_edges_per_event |-> 1]

\* The configurations a caller constructs a simulation with: the base one,
\* and the base one with a few fields changed, some of them out of range.
Configs ==
  {Base,
   [Base EXCEPT !.forensic_capacity = 100],
   [Base EXCEPT !.forensic_capacity = 100, !.coercive_capacity = 100,
                !.initial_criminal_share = 60, !.max_new_edges_per_event = 2],
   [Base EXCEPT !.forensic_capacity = 100, !.conviction_base_prob = 100,
                !.congestion_strength = 50],
   [Base EXCEPT !.coercive_capacity = 0],
   [Base EXCEPT !.coercive_capacity = 20],
   [Base EXCEPT !.coercive_capacity = -50],
   [Base EXCEPT !.forensic_capacity = 150],
   [Base EXCEPT !.coercive_capacity = 100, !.forensic_capacity = 50,
                !.initial_criminal_share = 0],
   [Base EXCEPT !.coercive_capacity = 100, !.forensic_capacity = 0,
                !.conviction_base_prob = 0, !.evidence_window_days = 10],
   [Base EXCEPT !.initial_criminal_share = 100],
   [Base EXCEPT !.n_agents = 2, !.coercive_capacity = 50,
                !.evidence_window_days = 25],
   [Base EXCEPT !.n_agents = 4, !.sf_m = 2, !.coercive_capacity = 50],
   [Base EXCEPT !.n_agents = 4, !.initial_criminal_share = 60,
                !.forensic_capacity = 100, !.coercive_capacity = 50],
   [Base EXCEPT !.sf_m = 0],
   [Base EXCEPT !.sf_m = 3],
   [Base EXCEPT !.n_agents = 0],
   [Base EXCEPT !.rewiring_enabled = FALSE],
   [Base EXCEPT !.detention_days_mean = 25, !.drop_lawful_edge_prob = 100],
   [Base EXCEPT !.detention_days_mean = 15, !.evidence_window_days = 0,
                !.max_new_edges_per_event = 0],
   [Base EXCEPT !.detention_days_mean = 5, !.prison_sentence_days_mean = 0,
                !.coercive_capacity = 100, !.conviction_base_prob = 100],
   [Base EXCEPT !.detention_days_mean = -10],
   [Base EXCEPT !.detention_stigma_increment = 60,
                !.detention_criminal_capital_increment = 60,
                !.prison_criminal_capital_increment = 100,
                !.coercive_capacity = 100],
   [Base EXCEPT !.detention_criminal_capital_increment = -15,
                !.coercive_capacity = 100, !.conviction_base_prob = 0],
   [Base EXCEPT !.prison_sentence_days_mean = -20, !.coercive_capacity = 100,
                !.forensic_capacity = 100, !.conviction_base_prob = 100]}

Seeds == 0..MaxSeed

\* The configurations and seeds of the two-simulation process.
PairConfigs ==
  {[Base EXCEPT !.coercive_capacity = 100, !.forensic_capacity = 50,
                !.detention_days_mean = 25],
   [Base EXCEPT !.n_agents = 2, !.coercive_capacity = 100,
                !.conviction_base_prob = 100, !.forensic_capacity = 100],
   [Base EXCEPT !.sf_m = 3]}

PairSeeds == 0..PairSeed

\* ---------------------------------------------------------------- the process

\* The simulations a process may hold.
Insts == {1, 2}

\* What the caller got from a constructor call, and whether every other
\* simulation of the process had finished its run when the call was made.
NoOutcome == [result |-> "none", cfg |-> Base, seed |-> 0, after_others |-> TRUE]

\* numpy's generator before any seed() call is seeded from the system.
Init ==
  /\ sim = [i \in Insts |-> NoSim]
  /\ outcome = [i \in Insts |-> NoOutcome]
  /\ np_random \in {0, 512}

\* Python runs one call at a time: no call starts inside another's step().
Quiet == \A j \in Insts : sim[j].pc \in {"none", "idle", "raised"}

\* CrimeABM(seed=seed, **cfg).  np.random.seed runs before the network is
\* built, so a construction that raises has reseeded numpy all the same.
Construct(i, cfgs, seeds, days) ==
  /\ Quiet
  /\ outcome[i].result = "none"
  /\ \E cfg \in cfgs, seed \in seeds :
       LET net == make_scale_free_network(cfg.n_agents, cfg.sf_m, seed)
           after == \A j \in Insts \ {i} : sim[j].pc = "idle" => sim[j].day >= days
       IN  /\ np_random' = np_random_seed(np_random, seed)
           /\ IF net.ok
              THEN /\ sim' = [sim EXCEPT ![i] = new_model(cfg, seed, net)]
                   /\ outcome' = [outcome EXCEPT ![i] =
                                    [result |-> "ok", cfg |-> cfg, seed |-> seed,
                                     after_others |-> after]]
              ELSE /\ sim' = sim
                   /\ outcome' = [outcome EXCEPT ![i] =
                                    [result |-> "ValueError", cfg |-> cfg, seed |-> seed,
                                     after_others |-> after]]

\* model.step() is called (run_baseline calls it n_days times).
StepBegin(i, days) ==
  /\ Quiet
  /\ sim[i].pc = "idle"
  /\ sim[i].day < days
  /\ sim' = [sim EXCEPT ![i] = step_begin(@)]
  /\ UNCHANGED <<np_random, outcome>>

\* schedule.step() activates the next agent.
AgentStep(i) ==
  /\ sim[i].pc = "agents"
  /\ sim[i].idx <= Len(sim[i].order)
  /\ LET r == schedule_next(sim[i], np_random)
     IN  /\ sim' = [sim EXCEPT ![i] = r.s]
         /\ np_random' = r.x
  /\ UNCHANGED outcome

\* police_step() starts once the scheduler has gone through its order.
PoliceBegin(i) ==
  /\ sim[i].pc = "agents"
  /\ sim[i].idx > Len(sim[i].order)
  /\ sim' = [sim EXCEPT ![i] = police_begin(@)]
  /\ UNCHANGED <<np_random, outcome>>

\* One policing attempt.
PoliceAttempt(i) ==
  /\ sim[i].pc = "police"
  /\ LET r == police_next(sim[i], np_random)
     IN  /\ sim' = [sim EXCEPT ![i] = r.s]
         /\ np_random' = r.x
  /\ UNCHANGED outcome

\* datacollector.collect(self) ends the day.
Collect(i) ==
  /\ sim[i].pc = "collect"
  /\ sim' = [sim EXCEPT ![i] = collect(@)]
  /\ UNCHANGED <<np_random, outcome>>

\* One simulation, constructed once and stepped MaxDays times.
Next ==
  \E i \in {1} :
    \/ Construct(i, Configs, Seeds, MaxDays)
    \/ StepBegin(i, MaxDays)
    \/ AgentStep(i)
    \/ PoliceBegin(i)
    \/ PoliceAttempt(i)
    \/ Collect(i)

Spec == Init /\ [][Next]_vars

\* Two simulations of one process, their constructions and steps interleaved
\* in any order.
NextPair ==
  \E i \in Insts :
    \/ Construct(i, PairConfigs, PairSeeds, PairDays)
    \/ StepBegin(i, PairDays)
    \/ AgentStep(i)
    \/ PoliceBegin(i)
    \/ PoliceAttempt(i)
    \/ Collect(i)

SpecPair == Init /\ [][NextPair]_vars

\* ---------------------------------------------------------------- claims

\* The simulations that exist.
Built == {i \in Insts : sim[i].pc # "none"}

\* A simulation between two step() calls, with at least one day behind it.
AfterStep(i) == sim[i].pc = "idle" /\ sim[i].day >= 1

\* C1.  At every day boundary (before and after each step()), for every
\* agent: the status is DETAINED exactly when detained_days_left > 0, PRISON
\* exactly when prison_days_left > 0, both timers are non-negative integers
\* and they are never both positive.
C1_TimersMatchStatus ==
  \A i \in Built : sim[i].pc = "idle" =>
    \A a \in Agents(sim[i]) :
      LET s == sim[i] IN
      /\ s.status[a] \in Status
      /\ (s.status[a] = DETAINED) <=> (s.detained_days_left[a] > 0)
      /\ (s.status[a] = PRISON) <=> (s.prison_days_left[a] > 0)
      /\ s.detained_days_left[a] \in Nat
      /\ s.prison_days_left[a] \in Nat
      /\ ~(s.detained_days_left[a] > 0 /\ s.prison_days_left[a] > 0)

\* C1's case: a day boundary with one agent held in detention, another in
\* prison, and a third back from a hold whose timer ran out that day.
C1_Witness ==
  \E i \in Built : AfterStep(i) /\
    \E a, b, c \in Agents(sim[i]) :
      /\ sim[i].status[a] = DETAINED /\ sim[i].detained_days_left[a] >= 1
      /\ sim[i].status[b] = PRISON /\ sim[i].prison_days_left[b] >= 1
      /\ sim[i].day_start.status[c] \in {DETAINED, PRISON}
      /\ sim[i].status[c] = AT_RISK

\* C2 as claimed.  An agent DETAINED with detained_days_left = 1 when the day
\* begins has had its judicial resolution by the end of that step() and is
\* then AT_RISK or PRISON, never DETAINED, whatever the configuration.
C2_NeverDetainedAfterStep ==
  \A i \in Built : AfterStep(i) =>
    \A a \in Agents(sim[i]) :
      (sim[i].day_start.status[a] = DETAINED
       /\ sim[i].day_start.detained_days_left[a] = 1)
      => /\ sim[i].resolved[a] = 1
         /\ sim[i].status[a] \in {AT_RISK, PRISON}

\* C2 as amended.  Such an agent has its judicial resolution in its own
\* day-step, exactly once, and from then until the policing pass of that
\* step() it is AT_RISK or PRISON.  At the end of the step() it is AT_RISK,
\* PRISON, or DETAINED again with a new timer because that day's policing
\* pass detained it after its release; without policing attempts it is never
\* DETAINED.
C2_ResolvedInOwnStep ==
  \A i \in Built : sim[i].pc \in {"agents", "police", "collect"} \/ AfterStep(i) =>
    \A a \in Agents(sim[i]) :
      LET s == sim[i] IN
      (s.day_start.status[a] = DETAINED /\ s.day_start.detained_days_left[a] = 1
       /\ s.agent_steps[a] >= 1)
      => /\ s.resolved[a] = 1
         /\ s.status[a] \in {AT_RISK, PRISON, DETAINED}
         /\ s.status[a] = DETAINED =>
              /\ s.entered[a] = 1
              /\ s.detained_days_left[a] >= 1
              /\ s.n_attempts >= 1
              /\ s.pc # "agents"
         /\ s.pc = "agents" => s.status[a] \in {AT_RISK, PRISON}

\* C2's case: a step() ended in which such an agent was resolved and, the
\* same day, detained again by the policing pass.
C2_Witness ==
  \E i \in Built : AfterStep(i) /\
    \E a \in Agents(sim[i]) :
      /\ sim[i].day_start.status[a] = DETAINED
      /\ sim[i].day_start.detained_days_left[a] = 1
      /\ sim[i].resolved[a] = 1
      /\ sim[i].status[a] = DETAINED

\* The same with the other two endings.
C2_WitnessReleased ==
  \E i \in Built : AfterStep(i) /\
    \E a, b \in Agents(sim[i]) :
      /\ sim[i].day_start.status[a] = DETAINED
      /\ sim[i].day_start.detained_days_left[a] = 1
      /\ sim[i].status[a] = AT_RISK
      /\ sim[i].day_start.status[b] = DETAINED
      /\ sim[i].day_start.detained_days_left[b] = 1
      /\ sim[i].status[b] = PRISON

\* Two simulations built from the same configuration and seed, each
\* constructed when the other had not been constructed or had finished its
\* run: two runs one after the other.
SameRunTwice(i, j) ==
  /\ i # j
  /\ outcome[i].result = "ok" /\ outcome[j].result = "ok"
  /\ outcome[i].cfg = outcome[j].cfg /\ outcome[i].seed = outcome[j].seed
  /\ outcome[i].after_others /\ outcome[j].after_others

\* C3.  Two runs with identical configuration and seed, one after the other,
\* give the same four counters (the DataCollector's row) and the same
\* per-agent statuses and timers on every day both have reached.
C3_SameSeedSameRun ==
  \A i, j \in Insts : SameRunTwice(i, j) =>
    \A d \in 1..Min(Len(sim[i].model_vars), Len(sim[j].model_vars)) :
      /\ sim[i].model_vars[d] = sim[j].model_vars[d]
      /\ sim[i].seen[d] = sim[j].seen[d]

\* C3's case: both runs are over, and they detained someone for more than
\* one day (a length drawn from numpy's generator) and convicted someone.
C3_Witness ==
  \E i, j \in Insts :
    /\ SameRunTwice(i, j)
    /\ sim[i].pc = "idle" /\ sim[i].day = PairDays
    /\ sim[j].pc = "idle" /\ sim[j].day = PairDays
    /\ \E d \in 1..PairDays : \E a \in Agents(sim[j]) :
         sim[j].seen[d].detained_days_left[a] >= 2
    /\ \E d \in 1..PairDays : sim[j].model_vars[d].detentions >= 1

\* C4 as claimed.  Whatever another simulation of the process does between
\* its operations, a simulation's rows, statuses, detention lengths and
\* sentence lengths are those of the same (configuration, seed) run alone.
C4_UndisturbedByOthers ==
  \A i \in Built : sim[i].pc = "idle" =>
    LET solo == run_alone(outcome[i].cfg, outcome[i].seed, sim[i].day)
    IN  /\ sim[i].model_vars = solo.model_vars
        /\ sim[i].seen = solo.seen

\* C5 as claimed.  After every step() the four counters are non-negative
\* integers that count that day's events, and
\* wrongful_detentions_today <= detentions_today <= floor(coercive_capacity * n_agents).
C5_CounterBounds ==
  \A i \in Built : AfterStep(i) =>
    LET s == sim[i] IN
    /\ s.crime_events_today \in Nat /\ s.convictions_today \in Nat
    /\ s.detentions_today \in Nat /\ s.wrongful_detentions_today \in Nat
    /\ s.wrongful_detentions_today <= s.detentions_today
    /\ s.detentions_today <= floor(s.p.coercive_capacity * s.p.n_agents, 100)

\* C5 where coercive_capacity is not negative: the bounds hold, and the
\* counters are the day's own (entries into detention, resolutions that
\* convicted, offenses of the day).
C5_BoundsForCapacityInRange ==
  \A i \in Built : AfterStep(i) /\ sim[i].p.coercive_capacity >= 0 =>
    LET s == sim[i] IN
    /\ s.wrongful_detentions_today \in Nat
    /\ s.wrongful_detentions_today <= s.detentions_today
    /\ s.detentions_today <= floor(s.p.coercive_capacity * s.p.n_agents, 100)
    /\ s.detentions_today = Sum([k \in 1..s.p.n_agents |-> s.entered[k - 1]])
    /\ s.crime_events_today = Sum([k \in 1..s.p.n_agents |-> s.crime_today[k - 1]])
    /\ s.convictions_today <= Sum([k \in 1..s.p.n_agents |-> s.resolved[k - 1]])

\* C6.  When floor(coercive_capacity * n_agents) = 0, on every day of the
\* run detentions_today = 0 and convictions_today = 0 (in the counters and
\* in every collected row) and no agent is ever DETAINED or PRISON.
C6_NoPolicingNoHolds ==
  \A i \in Built :
    LET s == sim[i] IN
    floor(s.p.coercive_capacity * s.p.n_agents, 100) = 0 =>
      /\ s.detentions_today = 0 /\ s.convictions_today = 0
      /\ \A a \in Agents(s) : s.status[a] \notin {DETAINED, PRISON}
      /\ \A d \in 1..Len(s.model_vars) :
           /\ s.model_vars[d].detentions = 0 /\ s.model_vars[d].convictions = 0
           /\ s.model_vars[d].n_detained = 0 /\ s.model_vars[d].n_prison = 0

\* C6's case: a positive capacity too small for one attempt, two days run,
\* the policing pass called, and criminals offending meanwhile.
C6_Witness ==
  \E i \in Built :
    /\ AfterStep(i) /\ sim[i].day >= 2
    /\ sim[i].p.coercive_capacity > 0
    /\ floor(sim[i].p.coercive_capacity * sim[i].p.n_agents, 100) = 0
    /\ sim[i].police_runs = 1
    /\ sim[i].crime_events_today >= 1

\* A policing pass of a simulation with forensic_capacity = 1.0 that began
\* with a CRIMINAL agent and has made an attempt.
C7_Case(i) ==
  /\ sim[i].pc \in {"police", "collect"}
  /\ sim[i].last_attempt.kind # "none"
  /\ sim[i].p.forensic_capacity = 100
  /\ \E a \in Agents(sim[i]) : sim[i].police_start[a] = CRIMINAL

\* C7 as claimed.  In such a pass every attempt draws its target from the
\* agents that are CRIMINAL at the moment of the draw, the wrongful branch
\* is not taken, and wrongful_detentions_today stays 0.
C7_TargetCriminalAtDraw ==
  \A i \in Built : C7_Case(i) =>
    LET t == sim[i].last_attempt IN
    /\ t.kind = "correct"
    /\ t.target \in t.pool_at_draw
    /\ t.status_at_draw = CRIMINAL
    /\ sim[i].wrongful_detentions_today = 0

\* C7 as amended.  In such a pass every attempt draws its target from the
\* agents that were CRIMINAL when the pass began (the list built before the
\* loop): the target is CRIMINAL at the draw, or was detained by an earlier
\* attempt of the same pass and the attempt is discarded.  The wrongful
\* branch is never taken in that pass and wrongful_detentions_today stays 0.
C7_TargetCriminalAtPassStart ==
  \A i \in Built : C7_Case(i) =>
    LET s == sim[i]
        t == s.last_attempt
    IN  /\ t.kind = "correct"
        /\ s.police_start[t.target] = CRIMINAL
        /\ \/ t.status_at_draw = CRIMINAL /\ t.detained
           \/ /\ t.status_at_draw = DETAINED /\ ~t.detained
              /\ s.entered[t.target] = 1
        /\ s.wrongful_detentions_today = 0

\* C7's case: an attempt of such a pass drew an agent that an earlier
\* attempt had detained, with no CRIMINAL agent left at the draw.
C7_Witness ==
  \E i \in Built :
    /\ C7_Case(i)
    /\ sim[i].last_attempt.kind = "correct"
    /\ sim[i].last_attempt.status_at_draw = DETAINED
    /\ sim[i].last_attempt.pool_at_draw = {}

\* The range of a probability, in hundredths.
Probability(x) == 0 <= x /\ x <= 100

\* A configuration the constructor is specified to accept.
ValidConfig(cfg) ==
  /\ cfg.n_agents > 0
  /\ cfg.sf_m >= 1 /\ cfg.sf_m < cfg.n_agents
  /\ Probability(cfg.forensic_capacity) /\ Probability(cfg.coercive_capacity)
  /\ Probability(cfg.conviction_base_prob)
  /\ Probability(cfg.drop_lawful_edge_prob) /\ Probability(cfg.add_criminal_edge_prob)
  /\ Probability(cfg.initial_criminal_share) /\ Probability(cfg.initial_at_risk_share)
  /\ Probability(cfg.crime_base_rate)

\* C8 as claimed.  A constructor call fails, and returns no simulation,
\* whenever n_agents <= 0, sf_m is out of range or a probability-typed field
\* lies outside [0,1].
C8_InvalidConfigurationFails ==
  \A i \in Insts :
    (outcome[i].result # "none" /\ ~ValidConfig(outcome[i].cfg))
    => outcome[i].result = "ValueError" /\ sim[i].pc = "none"

\* C8 for the two checks the code has: n_agents <= 0 or sf_m out of range
\* fails with ValueError and returns no simulation.
C8_NetworkRangeFails ==
  \A i \in Insts :
    LET cfg == outcome[i].cfg IN
    (outcome[i].result # "none"
     /\ (cfg.n_agents <= 0 \/ cfg.sf_m < 1 \/ cfg.sf_m >= cfg.n_agents))
    => outcome[i].result = "ValueError" /\ sim[i].pc = "none"

\* C9.  In every step() each agent takes its day-step exactly once, all of
\* them before the first policing attempt; the policing pass runs once; and
\* the row collected for the day holds the counters as policing left them.
C9_DayOrder ==
  \A i \in Built :
    LET s == sim[i] IN
    /\ s.pc = "agents" =>
         /\ \A a \in Agents(s) : s.agent_steps[a] <= 1
         /\ Cardinality({a \in Agents(s) : s.agent_steps[a] = 1}) = s.idx - 1
         /\ s.police_runs = 0 /\ s.last_attempt.kind = "none"
         /\ s.detentions_today = 0
    /\ s.pc \in {"police", "collect"} \/ AfterStep(i) =>
         /\ \A a \in Agents(s) : s.agent_steps[a] = 1
         /\ s.police_runs = 1
         /\ s.attempt <= s.n_attempts
    /\ s.pc = "collect" \/ AfterStep(i) => s.attempt = s.n_attempts
    /\ AfterStep(i) =>
         /\ Len(s.model_vars) = s.day
         /\ s.model_vars[s.day].crime_events = s.crime_events_today
         /\ s.model_vars[s.day].detentions = s.detentions_today
         /\ s.model_vars[s.day].wrongful_detentions = s.wrongful_detentions_today
         /\ s.model_vars[s.day].convictions = s.convictions_today

\* C9's case: a day of four agents ended, with an offense and a conviction
\* in the agents' steps and a detention in the policing pass.
C9_Witness ==
  \E i \in Built :
    /\ AfterStep(i)
    /\ sim[i].p.n_agents = 4
    /\ sim[i].crime_events_today >= 1
    /\ sim[i].detentions_today >= 1
    /\ sim[i].order # <<0, 1, 2, 3>>

\* C10.  A rewiring event leaves the node set as it was, creates no
\* self-loop and no second edge between two agents, adds at most
\* max_new_edges_per_event edges (each from the agent to another one), drops
\* only edges from the agent to LAWFUL neighbours, and so changes the number
\* of edges by at most (edges dropped) + max_new_edges_per_event.
C10_RewireKeepsGraphSimple ==
  \A i \in Built :
    LET s == sim[i]
        r == s.last_rewire
        added == r.G_after \ r.G_before
        dropped == r.G_before \ r.G_after
        change == Cardinality(r.G_after) - Cardinality(r.G_before)
    IN  /\ s.nodes = Agents(s)
        /\ \A e \in s.G : Cardinality(e) = 2 /\ e \subseteq s.nodes
        /\ r.agent # -1 =>
             /\ r.nodes_after = r.nodes_before
             /\ \A e \in r.G_after : Cardinality(e) = 2
             /\ Cardinality(added) <= s.p.max_new_edges_per_event
             /\ \A e \in added : r.agent \in e
             /\ \A e \in dropped : \E b \in r.lawful : e = Edge(r.agent, b)
             /\ change <= Cardinality(dropped) + s.p.max_new_edges_per_event
             /\ -change <= Cardinality(dropped) + s.p.max_new_edges_per_event

\* C10's case: an event that dropped an edge and added one.
C10_Witness ==
  \E i \in Built :
    LET r == sim[i].last_rewire IN
    /\ r.agent # -1
    /\ r.G_before \ r.G_after # {}
    /\ r.G_after \ r.G_before # {}

\* C11 as claimed.  Every agent's crime_history has, at every point of the
\* run, the length of the configured evidence_window_days (given in tenths
\* of a day), entries 0 or 1 and a sum of at most its length.
C11_WindowLengthAsConfigured ==
  \A i \in Built : \A a \in Agents(sim[i]) :
    LET h == sim[i].crime_history[a] IN
    /\ Len(h) * 10 = outcome[i].cfg.evidence_window_days
    /\ \A k \in 1..Len(h) : h[k] \in {0, 1}
    /\ Sum(h) <= Len(h)

\* C11 as amended.  The length is max(1, int(evidence_window_days)) at every
\* point of the run; every entry is 0 or 1 and the sum is at most the length.
C11_WindowLengthConstant ==
  \A i \in Built : \A a \in Agents(sim[i]) :
    LET h == sim[i].crime_history[a] IN
    /\ Len(h) = Max(1, int(outcome[i].cfg.evidence_window_days, 10))
    /\ \A k \in 1..Len(h) : h[k] \in {0, 1}
    /\ Sum(h) <= Len(h)

\* C11's case: a window configured as 0 days, three days into the run, its
\* one entry the offense of the latest day.
C11_Witness ==
  \E i \in Built :
    /\ AfterStep(i) /\ sim[i].day >= 3
    /\ outcome[i].cfg.evidence_window_days = 0
    /\ \E a \in Agents(sim[i]) : sim[i].crime_history[a] = <<1>>

\* C12 as claimed.  step() never raises in a simulation the constructor
\* returned.
C12_StepNeverRaises ==
  \A i \in Built : sim[i].pc # "raised"

\* The part of C12 that holds: with means of at least 0 stored for the
\* detention length and the sentence, no step() raises.
C12_NoRaiseForMeansFromZero ==
  \A i \in Built :
    sim[i].p.detention_days_mean >= 0 /\ sim[i].p.prison_sentence_days_mean >= 0
    => sim[i].pc # "raised"

\* The no-ops C12 names: an attempt whose wrongful branch finds its pool
\* empty detains nobody and changes no counter, status, timer or edge; an
\* agent without neighbours has criminal-neighbour share 0.
C12_EmptyPoolIsNoOp ==
  [][\A i \in Insts :
       /\ sim[i].pc = "police" /\ sim'[i].pc # "raised"
          /\ sim'[i].attempt = sim[i].attempt + 1
          /\ sim'[i].last_attempt.kind = "skipped"
          => /\ sim[i].non_criminals = <<>>
             /\ sim'[i].status = sim[i].status
             /\ sim'[i].detained_days_left = sim[i].detained_days_left
             /\ sim'[i].stigma = sim[i].stigma
             /\ sim'[i].G = sim[i].G
             /\ sim'[i].detentions_today = sim[i].detentions_today
             /\ sim'[i].wrongful_detentions_today = sim[i].wrongful_detentions_today
             /\ sim'[i].convictions_today = sim[i].convictions_today
             /\ sim'[i].crime_events_today = sim[i].crime_events_today
       /\ sim'[i].pc # "none" =>
            \A a \in Agents(sim'[i]) :
              neighbors(sim'[i].G, a) = <<>> => share_criminal_neighbors(sim'[i], a) = 0
    ]_vars

\* States C12 is about: a skipped attempt, and an agent left without
\* neighbours by a rewiring event.
C12_WitnessSkipped ==
  \E i \in Built : sim[i].pc \in {"police", "collect"}
                   /\ sim[i].last_attempt.kind = "skipped"

C12_WitnessIsolated ==
  \E i \in Built : \E a \in Agents(sim[i]) : neighbors(sim[i].G, a) = <<>>

\* The configuration re-derived from a live simulation: its parameter
\* attributes, the day counts written in tenths of a day as the caller
\* wrote them.  (seed is an attribute too, and no field of the record.)
derived_config(s) ==
  [f \in DOMAIN s.p \ {"seed"} |->
     IF f \in {"detention_days_mean", "prison_sentence_days_mean",
               "evidence_window_days"}
     THEN s.p[f] * 10 ELSE s.p[f]]

\* C13 as claimed.  Every field of the configuration the constructor was
\* given can be re-derived from the live simulation and has the value given.
C13_ConfigRoundTrip ==
  \A i \in Built :
    \A f \in DOMAIN outcome[i].cfg :
      /\ f \in DOMAIN derived_config(sim[i])
      /\ derived_config(sim[i])[f] = outcome[i].cfg[f]

\* C13 as amended.  At every point of the run the simulation holds every
\* field but initial_criminal_share and initial_at_risk_share; the day counts
\* are held truncated to whole days, every other field as given.
C13_StoredFieldsRoundTrip ==
  \A i \in Built :
    LET cfg == outcome[i].cfg
        d == derived_config(sim[i])
    IN  /\ DOMAIN cfg \ DOMAIN d = {"initial_criminal_share", "initial_at_risk_share"}
        /\ DOMAIN d \subseteq DOMAIN cfg
        /\ \A f \in DOMAIN d :
             d[f] = IF f \in {"detention_days_mean", "prison_sentence_days_mean",
                              "evidence_window_days"}
                    THEN int(cfg[f], 10) * 10 ELSE cfg[f]
        /\ sim[i].p.seed = outcome[i].seed

\* C13's case: a simulation given a detention mean of 1.5 days, read after
\* two days of stepping.
C13_Witness ==
  \E i \in Built :
    /\ AfterStep(i) /\ sim[i].day >= 2
    /\ outcome[i].cfg.detention_days_mean = 15
    /\ derived_config(sim[i]).detention_days_mean = 10

\* The agents that have taken their day-step of the day in progress (or of
\* the day just ended).
SteppedToday(s) == {a \in Agents(s) : s.agent_steps[a] >= 1}

\* C14.  An agent that was DETAINED or PRISON when the day began has, once
\* its day-step is done, crime_today = 0 and a 0 as the newest entry of its
\* crime_history, also when the step released or convicted it;
\* crime_events_today is the sum of the crime_today of the agents stepped so
\* far, so such an agent adds nothing to it; crime_today is always 0 or 1.
C14_NoOffenseWhileHeld ==
  \A i \in Built :
    LET s == sim[i] IN
    /\ \A a \in Agents(s) : s.crime_today[a] \in {0, 1}
    /\ s.pc \in {"agents", "police", "collect"} \/ AfterStep(i) =>
         /\ s.crime_events_today = Sum([k \in 1..Len(s.order) |->
               IF s.order[k] \in SteppedToday(s) THEN s.crime_today[s.order[k]] ELSE 0])
         /\ \A a \in SteppedToday(s) :
              s.day_start.status[a] \in {DETAINED, PRISON} =>
                /\ s.crime_today[a] = 0
                /\ s.crime_history[a][Len(s.crime_history[a])] = 0

\* C14's case: on one day, an agent that began it held has been released by
\* its day-step and another agent has offended.
C14_Witness ==
  \E i \in Built :
    LET s == sim[i] IN
    /\ s.pc \in {"police", "collect"}
    /\ \E a, b \in SteppedToday(s) :
         /\ s.day_start.status[a] \in {DETAINED, PRISON} /\ s.status[a] = AT_RISK
         /\ s.crime_today[b] = 1

C14_WitnessPrisonRelease ==
  \E i \in Built :
    LET s == sim[i] IN
    /\ s.pc \in {"police", "collect"}
    /\ \E a \in SteppedToday(s) :
         s.day_start.status[a] = PRISON /\ s.status[a] = AT_RISK

\* C15.  A policing attempt whose drawn target is DETAINED or PRISON at the
\* draw leaves every status, timer, stigma, the graph and the four counters
\* as they were; in every state no agent has entered DETAINED more than once
\* that day, and detentions_today is the number of agents that have.
C15_HeldTargetDiscarded ==
  [][\A i \in Insts :
       /\ sim[i].pc = "police" /\ sim'[i].pc \in {"police", "collect"}
          /\ sim'[i].attempt = sim[i].attempt + 1
          /\ sim'[i].last_attempt.target # -1
          /\ sim[i].status[sim'[i].last_attempt.target] \in {DETAINED, PRISON}
          => /\ sim'[i].status = sim[i].status
             /\ sim'[i].detained_days_left = sim[i].detained_days_left
             /\ sim'[i].prison_days_left = sim[i].prison_days_left
             /\ sim'[i].stigma = sim[i].stigma
             /\ sim'[i].criminal_capital = sim[i].criminal_capital
             /\ sim'[i].G = sim[i].G
             /\ sim'[i].detentions_today = sim[i].detentions_today
             /\ sim'[i].wrongful_detentions_today = sim[i].wrongful_detentions_today
             /\ sim'[i].convictions_today = sim[i].convictions_today
             /\ sim'[i].crime_events_today = sim[i].crime_events_today
             /\ sim'[i].entered = sim[i].entered
       /\ sim'[i].pc \notin {"none", "raised"} =>
            /\ \A a \in Agents(sim'[i]) : sim'[i].entered[a] <= 1
            /\ sim'[i].detentions_today =
                 Cardinality({a \in Agents(sim'[i]) : sim'[i].entered[a] >= 1})
    ]_vars

\* C15's case: the latest attempt drew an agent that an earlier attempt of
\* the same pass had detained, and was discarded.
C15_Witness ==
  \E i \in Built :
    LET s == sim[i] IN
    /\ s.pc \in {"police", "collect"}
    /\ s.last_attempt.target # -1
    /\ s.last_attempt.status_at_draw = DETAINED
    /\ ~s.last_attempt.detained
    /\ s.entered[s.last_attempt.target] = 1
    /\ s.detentions_today = 1

\* The day, counted from 1, that a simulation's step in progress is making.
Today(s) == s.day + 1

\* What C16 says of an agent's day-step, given the agent's status before it.
C16_OnSchedule(s, t, a) ==
  /\ s.status[a] = DETAINED =>
       /\ s.det_hold[a].length >= 1
       /\ IF Today(s) = s.det_hold[a].entered + s.det_hold[a].length
          THEN t.resolved[a] = s.resolved[a] + 1 /\ t.status[a] \in {AT_RISK, PRISON}
          ELSE /\ Today(s) < s.det_hold[a].entered + s.det_hold[a].length
               /\ t.resolved[a] = s.resolved[a] /\ t.status[a] = DETAINED
  /\ s.status[a] = PRISON =>
       /\ s.pri_hold[a].length >= 1
       /\ IF Today(s) = s.pri_hold[a].entered + s.pri_hold[a].length
          THEN t.status[a] = AT_RISK
          ELSE /\ Today(s) < s.pri_hold[a].entered + s.pri_hold[a].length
               /\ t.status[a] = PRISON

\* C16.  An agent that entered DETAINED on day e with timer d undergoes
\* judicial resolution in its day-step of day e + d and in no earlier one,
\* and an agent that entered PRISON on day e with timer s is released to
\* AT_RISK in its day-step of day e + s and in no earlier one.  So no hold is
\* ever overdue: between steps, a held agent's timer is what is left until
\* its day, and every hold has ended once that day has been stepped.
C16_HoldsEndOnSchedule ==
  [][\A i \in Insts :
       /\ sim[i].pc = "agents" /\ sim'[i].pc = "agents"
          /\ sim'[i].idx = sim[i].idx + 1
          => C16_OnSchedule(sim[i], sim'[i], sim[i].order[sim[i].idx])
       /\ sim'[i].pc = "idle" =>
            \A a \in Agents(sim'[i]) :
              LET t == sim'[i] IN
              /\ t.status[a] = DETAINED =>
                   t.detained_days_left[a]
                     = t.det_hold[a].entered + t.det_hold[a].length - t.day
              /\ t.status[a] = PRISON =>
                   t.prison_days_left[a]
                     = t.pri_hold[a].entered + t.pri_hold[a].length - t.day
              /\ t.status[a] = DETAINED => t.day < t.det_hold[a].entered + t.det_hold[a].length
              /\ t.status[a] = PRISON => t.day < t.pri_hold[a].entered + t.pri_hold[a].length
    ]_vars

\* C16's case: an agent detained for two days or more has been resolved on
\* its day, convicted to two days or more, and released on that day.
C16_Witness ==
  \E i \in Built :
    LET s == sim[i] IN
    /\ s.pc \in {"agents", "police", "collect"}
    /\ \E a \in SteppedToday(s) :
         /\ s.det_hold[a].length >= 2 /\ s.pri_hold[a].length >= 2
         /\ s.pri_hold[a].entered = s.det_hold[a].entered + s.det_hold[a].length
         /\ Today(s) = s.pri_hold[a].entered + s.pri_hold[a].length
         /\ s.day_start.status[a] = PRISON /\ s.status[a] = AT_RISK

\* The last n entries of a sequence of at least n entries.
LastN(seq, n) == SubSeq(seq, Len(seq) - n + 1, Len(seq))

\* C17.  Every completed day-step of an agent, in whichever branch, has
\* appended one entry to the agent's crime_history, 1 if the agent offended
\* in that step and 0 if not: the window is always the last W entries of W
\* zeros followed by the agent's flags of all days so far, in order, with
\* W = max(1, evidence_window_days) the window's length.
C17_WindowIsLatestFlags ==
  \A i \in Built :
    LET s == sim[i]
        W == Max(1, s.p.evidence_window_days)
    IN  \A a \in Agents(s) :
          /\ Len(s.flags[a]) =
               s.day + (IF s.pc # "idle" /\ a \in SteppedToday(s) THEN 1 ELSE 0)
          /\ s.crime_history[a] = LastN(Repeat(0, W) \o s.flags[a], W)

\* C17's case: an agent with more days behind it than its window of two
\* days holds, one of them spent held, with an offense that has left the
\* window and a window that holds a 0 and a 1.
C17_Witness ==
  \E i \in Built :
    LET s == sim[i] IN
    /\ AfterStep(i) /\ Max(1, s.p.evidence_window_days) = 2
    /\ \E a \in Agents(s) :
         /\ Len(s.flags[a]) >= 4
         /\ s.flags[a][1] = 1
         /\ s.det_hold[a].entered >= 1
         /\ Range(s.crime_history[a]) = {0, 1}

\* The edge set a simulation was constructed with.
InitialEdges(i) ==
  make_scale_free_network(outcome[i].cfg.n_agents, outcome[i].cfg.sf_m,
                          outcome[i].seed).edges

\* What a day-step of agent a leaves alone: every other agent's state.
OthersUnchanged(s, t, a) ==
  \A b \in Agents(s) \ {a} :
    /\ t.status[b] = s.status[b]
    /\ t.detained_days_left[b] = s.detained_days_left[b]
    /\ t.prison_days_left[b] = s.prison_days_left[b]
    /\ t.stigma[b] = s.stigma[b]
    /\ t.criminal_capital[b] = s.criminal_capital[b]
    /\ t.crime_history[b] = s.crime_history[b]

\* C18.  The edge set changes only with rewiring enabled, and only in a
\* policing attempt that detains its target or in a day-step that convicts
\* its agent: every other part of a step (risk update, offense attempt,
\* prison release, release without conviction, counter reset, collection)
\* leaves it as it was, and with rewiring disabled it is the initial edge set
\* in every state.  A day-step of one agent leaves the status, timers,
\* stigma, criminal_capital and crime_history of every other agent unchanged.
C18_GraphAndOthersFramed ==
  [][\A i \in Insts :
       /\ sim[i].pc # "none" /\ sim'[i].G # sim[i].G =>
            /\ sim[i].p.rewiring_enabled
            /\ \/ /\ sim[i].pc = "police"
                  /\ sim'[i].last_attempt.detained
                  /\ sim'[i].detentions_today = sim[i].detentions_today + 1
               \/ /\ sim[i].pc = "agents" /\ sim[i].idx <= Len(sim[i].order)
                  /\ sim[i].status[sim[i].order[sim[i].idx]] = DETAINED
                  /\ sim'[i].status[sim[i].order[sim[i].idx]] = PRISON
                  /\ sim'[i].convictions_today = sim[i].convictions_today + 1
       /\ sim'[i].pc # "none" /\ ~sim'[i].p.rewiring_enabled =>
            sim'[i].G = InitialEdges(i)'
       /\ sim[i].pc = "agents" /\ sim[i].idx <= Len(sim[i].order) /\ sim'[i] # sim[i] =>
            OthersUnchanged(sim[i], sim'[i], sim[i].order[sim[i].idx])
    ]_vars

\* C18's case: rewiring disabled, three days stepped, an agent that has been
\* detained and convicted, and the edge set still the initial one.
C18_Witness ==
  \E i \in Built :
    LET s == sim[i] IN
    /\ AfterStep(i) /\ s.day >= 3 /\ ~s.p.rewiring_enabled
    /\ \E a \in Agents(s) : s.det_hold[a].entered >= 1 /\ s.pri_hold[a].entered >= 1
    /\ s.G = InitialEdges(i)

\* With rewiring enabled: a day-step that released its agent from PRISON
\* after the edge set had been rewired, leaving the edge set as it was.
C18_WitnessRewired ==
  \E i \in Built :
    LET s == sim[i] IN
    /\ s.p.rewiring_enabled /\ s.G # InitialEdges(i)
    /\ \E a \in SteppedToday(s) : s.day_start.status[a] = PRISON /\ s.status[a] = AT_RISK

\* The increment parameters are all in [0, 1].
IncrementsInRange(p) ==
  /\ p.detention_stigma_increment \in 0..100
  /\ p.detention_criminal_capital_increment \in 0..100
  /\ p.prison_criminal_capital_increment \in 0..100

\* C19.  In a simulation whose increment parameters are all in [0, 1], every
\* agent's stigma and criminal_capital are in [0, 1] and no step lowers
\* them; stigma changes only in the policing attempt that detains the agent,
\* and criminal_capital only in the agent's own day-step, when it resolves
\* the agent's detention (conviction or release) or releases it from PRISON.
C19_ScarsOnlyGrow ==
  [][\A i \in Insts :
       sim'[i].pc # "none" /\ IncrementsInRange(sim'[i].p) =>
         \A a \in Agents(sim'[i]) :
           /\ sim'[i].stigma[a] \in 0..100
           /\ sim'[i].criminal_capital[a] \in 0..100
           /\ sim[i].pc # "none" =>
                /\ sim'[i].stigma[a] >= sim[i].stigma[a]
                /\ sim'[i].criminal_capital[a] >= sim[i].criminal_capital[a]
                /\ sim'[i].stigma[a] # sim[i].stigma[a] =>
                     /\ sim[i].pc = "police"
                     /\ sim'[i].last_attempt.target = a
                     /\ sim'[i].entered[a] = sim[i].entered[a] + 1
                     /\ sim'[i].status[a] = DETAINED /\ sim[i].status[a] # DETAINED
                /\ sim'[i].criminal_capital[a] # sim[i].criminal_capital[a] =>
                     /\ sim[i].pc = "agents" /\ sim[i].idx <= Len(sim[i].order)
                     /\ sim[i].order[sim[i].idx] = a
                     /\ \/ /\ sim[i].status[a] = DETAINED
                           /\ sim'[i].status[a] \in {PRISON, AT_RISK}
                           /\ sim'[i].resolved[a] = sim[i].resolved[a] + 1
                        \/ /\ sim[i].status[a] = PRISON
                           /\ sim'[i].status[a] = AT_RISK
    ]_vars

\* C19's case: an agent whose stigma and criminal_capital have both been
\* raised to the ceiling of 1 by repeated detentions and resolutions.
C19_Witness ==
  \E i \in Built :
    LET s == sim[i] IN
    /\ IncrementsInRange(s.p)
    /\ \E a \in Agents(s) : s.stigma[a] = 100 /\ s.criminal_capital[a] = 100

\* C19's other changes: a release without conviction and a prison release
\* have each raised an agent's criminal_capital.
C19_WitnessReleases ==
  \E i \in Built :
    LET s == sim[i] IN
    /\ IncrementsInRange(s.p) /\ s.p.detention_criminal_capital_increment > 0
    /\ \E a \in SteppedToday(s) :
         /\ s.day_start.status[a] = PRISON /\ s.status[a] = AT_RISK
         /\ s.criminal_capital[a] \in 1..99
    /\ \E a \in SteppedToday(s) :
         /\ s.day_start.status[a] = DETAINED /\ s.status[a] = AT_RISK
         /\ s.criminal_capital[a] \in 1..99

\* The status changes a day-step may make to its own agent a.  LAWFUL to
\* CRIMINAL is LAWFUL -> AT_RISK followed by AT_RISK -> CRIMINAL, the two
\* assignments of one update_risk_state call.
AgentStepChange(s, t, a) ==
  \/ /\ s.status[a] = LAWFUL /\ t.status[a] \in {AT_RISK, CRIMINAL}
     /\ propensity_of(s, a) >= s.p.risk_threshold
  \/ s.status[a] = AT_RISK /\ t.status[a] = CRIMINAL
  \/ /\ s.status[a] = DETAINED /\ t.status[a] \in {PRISON, AT_RISK}
     /\ s.detained_days_left[a] = 1 /\ t.resolved[a] = s.resolved[a] + 1
  \/ /\ s.status[a] = PRISON /\ t.status[a] = AT_RISK
     /\ s.prison_days_left[a] = 1

\* The status change a policing attempt may make: its target is detained.
PoliceChange(s, t, a) ==
  /\ s.status[a] \in {LAWFUL, AT_RISK, CRIMINAL} /\ t.status[a] = DETAINED
  /\ t.last_attempt.target = a /\ t.last_attempt.detained

\* C20.  An agent's status changes only by LAWFUL -> AT_RISK and
\* AT_RISK -> CRIMINAL (its own risk update), to DETAINED from LAWFUL,
\* AT_RISK or CRIMINAL (a policing attempt on it), DETAINED -> PRISON and
\* DETAINED -> AT_RISK (its judicial resolution) and PRISON -> AT_RISK (its
\* timer's expiry).  So no agent returns to LAWFUL, the number of LAWFUL
\* agents never rises, a CRIMINAL agent leaves CRIMINAL only to DETAINED,
\* and PRISON is entered only from DETAINED.
C20_StatusTransitions ==
  [][\A i \in Insts :
       sim[i].pc # "none" =>
         /\ \A a \in Agents(sim[i]) :
              /\ sim'[i].status[a] # sim[i].status[a] =>
                   \/ /\ sim[i].pc = "agents" /\ sim[i].idx <= Len(sim[i].order)
                      /\ sim[i].order[sim[i].idx] = a
                      /\ AgentStepChange(sim[i], sim'[i], a)
                   \/ /\ sim[i].pc = "police"
                      /\ PoliceChange(sim[i], sim'[i], a)
              /\ sim'[i].status[a] = LAWFUL => sim[i].status[a] = LAWFUL
              /\ sim[i].status[a] = CRIMINAL => sim'[i].status[a] \in {CRIMINAL, DETAINED}
              /\ sim'[i].status[a] = PRISON => sim[i].status[a] \in {PRISON, DETAINED}
         /\ count_in_state(sim'[i], LAWFUL) <= count_in_state(sim[i], LAWFUL)
    ]_vars

\* C20's case: an agent that has been detained, convicted and released and
\* is CRIMINAL again, in a run where an agent that ended the first day
\* LAWFUL has left LAWFUL.
C20_Witness ==
  \E i \in Built :
    LET s == sim[i] IN
    /\ AfterStep(i)
    /\ \E a \in Agents(s) :
         /\ s.det_hold[a].entered >= 1 /\ s.pri_hold[a].entered > s.det_hold[a].entered
         /\ s.status[a] = CRIMINAL
    /\ \E b \in Agents(s) : s.seen[1].status[b] = LAWFUL /\ s.status[b] # LAWFUL

====
